---- MODULE Spec2Model ----
(***************************************************************************)
(* Grading review of the Scorix client: the GradingInterface component     *)
(* (frontend/src/components/grading/GradingInterface.tsx), its statistics  *)
(* helper calculateStats, and the classification / aggregation functions   *)
(* that the grading service applies before the client receives a result.   *)
(*                                                                         *)
(* Numbers.  Scores and cutoffs are percentages.  A score handed to        *)
(* classify or produced by aggregateOverall is kept in tenths of a percent *)
(* (900 is 90.0), so that one decimal place is exact.  A value that        *)
(* JavaScript may hold as null is a set with at most one element: {} is    *)
(* null, {v} is the value v.                                               *)
(***************************************************************************)
EXTENDS Integers, Sequences, FiniteSets, TLC

\* ------------------------------------------------------------------------
\* Bounds of the model
\* ------------------------------------------------------------------------
\* grading requests (gradeCourse / gradeTest) outstanding at a time
MaxInFlight == 2
\* edits of the thresholds form in one run
MaxEdits == 1
\* "Update Thresholds" clicks in one run
MaxUpdates == 1
\* question results handed to aggregateOverall
MaxQuestions == 2
\* API requests of the auth flow awaiting their response at a time
MaxPending == 2
\* seconds a test lasts at most, standing for duration_minutes * 60
MaxSeconds == 3
\* clicks on Start Test / on Submit Test in one run
MaxStarts == 2
MaxSubmitClicks == 2

\* ------------------------------------------------------------------------
\* Grade labels and thresholds           (types/index.ts, GradeThresholds)
\* ------------------------------------------------------------------------
\* the fixed priority order of the labels
GradeOrder == <<"A", "B", "C", "D", "F">>

Grades == {GradeOrder[i] : i \in DOMAIN GradeOrder}

\* parseInt of a text without a leading number; compares false with everything
NaN == -999

\* useState initial value of thresholdsForm
DefaultThresholds == [A |-> 90, B |-> 80, C |-> 70, D |-> 60, F |-> 0]

\* A >= B >= C >= D >= F >= 0, false as soon as one cutoff is NaN
Monotone(t) ==
    /\ \A g \in Grades : t[g] # NaN
    /\ \A i \in 1..(Len(GradeOrder) - 1) : t[GradeOrder[i]] >= t[GradeOrder[i + 1]]
    /\ t[GradeOrder[Len(GradeOrder)]] >= 0

\* ------------------------------------------------------------------------
\* ThresholdTable.classify
\* ------------------------------------------------------------------------
RECURSIVE classifyFrom(_, _, _)
classifyFrom(i, score10, thresholds) ==
    IF i > Len(GradeOrder) THEN "InvalidThresholds"
    ELSE IF thresholds[GradeOrder[i]] # NaN /\ thresholds[GradeOrder[i]] * 10 <= score10
         THEN GradeOrder[i]
         ELSE classifyFrom(i + 1, score10, thresholds)

\* a cutoff is an exclusive bound: a score equal to the cutoff falls through
classifyExclusive(score10, thresholds) ==
    LET RECURSIVE from(_)
        from(i) == IF i > Len(GradeOrder) THEN "InvalidThresholds"
                   ELSE IF thresholds[GradeOrder[i]] * 10 < score10
                        THEN GradeOrder[i]
                        ELSE from(i + 1)
    IN  from(1)

\* a score below every cutoff is given the lowest label
classifyDefaultingToF(score10, thresholds) ==
    IF classifyFrom(1, score10, thresholds) = "InvalidThresholds"
    THEN GradeOrder[Len(GradeOrder)]
    ELSE classifyFrom(1, score10, thresholds)

\* the first label, in the order A,B,C,D,F, whose cutoff is <= score
classify(score10, thresholds) == classifyFrom(1, score10, thresholds)

\* ------------------------------------------------------------------------
\* ResultAggregator.aggregateOverall
\* ------------------------------------------------------------------------
Abs(x) == IF x < 0 THEN -x ELSE x

\* num / den rounded to the nearest integer, a half going up in magnitude
RoundHalfAwayFromZero(num, den) ==
    LET q == (2 * Abs(num) + den) \div (2 * den)
    IN  IF num < 0 THEN -q ELSE q

RECURSIVE SumOver(_, _)
SumOver(seq, field) ==
    IF seq = <<>> THEN 0
    ELSE Head(seq)[field] + SumOver(Tail(seq), field)

\* the percentage is cut to one decimal instead of rounded
aggregateOverallTruncating(questionResults, thresholds) ==
    LET earned == SumOver(questionResults, "points_earned")
        max    == SumOver(questionResults, "max_points")
        score  == IF max = 0 THEN 0 ELSE (1000 * earned) \div max
    IN  [overall_score       |-> score,
         overall_grade       |-> classify(score, thresholds),
         total_points_earned |-> earned]

\* the percentage is divided out even when no points can be earned: 0 / 0
aggregateOverallDividing(questionResults, thresholds) ==
    LET earned == SumOver(questionResults, "points_earned")
        max    == SumOver(questionResults, "max_points")
        score  == IF max = 0 THEN NaN ELSE RoundHalfAwayFromZero(1000 * earned, max)
    IN  [overall_score       |-> score,
         overall_grade       |-> classify(score, thresholds),
         total_points_earned |-> earned]

aggregateOverall(questionResults, thresholds) ==
    LET earned == SumOver(questionResults, "points_earned")
        max    == SumOver(questionResults, "max_points")
        score  == IF max = 0 THEN 0 ELSE RoundHalfAwayFromZero(1000 * earned, max)
    IN  [overall_score       |-> score,
         overall_grade       |-> classify(score, thresholds),
         total_points_earned |-> earned]

\* ------------------------------------------------------------------------
\* calculateStats                      (GradingInterface.tsx, lines 166-181)
\* ------------------------------------------------------------------------
RECURSIVE Gcd(_, _)
Gcd(a, b) == IF b = 0 THEN a ELSE Gcd(b, a % b)

\* the quotient a / b of two numbers, b > 0, as a fraction in lowest terms
Quotient(a, b) ==
    LET g == Gcd(Abs(a), b)
    IN  [num |-> a \div g, den |-> b \div g]

\* 'overall_score' in r ? r.overall_score : r.score
ScoreOf(r) == IF "overall_score" \in DOMAIN r THEN r.overall_score ELSE r.score

\* 'overall_grade' in r ? r.overall_grade : r.grade
GradeOf(r) == IF "overall_grade" \in DOMAIN r THEN r.overall_grade ELSE r.grade

RECURSIVE ReduceSum(_)
ReduceSum(scores) ==
    IF scores = <<>> THEN 0 ELSE Head(scores) + ReduceSum(Tail(scores))

MathMax(scores) ==
    CHOOSE m \in {scores[i] : i \in DOMAIN scores} :
        \A i \in DOMAIN scores : scores[i] <= m

MathMin(scores) ==
    CHOOSE m \in {scores[i] : i \in DOMAIN scores} :
        \A i \in DOMAIN scores : scores[i] >= m

\* results.forEach(r => gradeDistribution[grade] = (gradeDistribution[grade] || 0) + 1)
GradeDistribution(results) ==
    [g \in {GradeOf(results[i]) : i \in DOMAIN results} |->
        Cardinality({i \in DOMAIN results : GradeOf(results[i]) = g})]

\* an empty collection gets a statistics value of zeros
calculateStatsZeros(results) ==
    IF Len(results) = 0
    THEN {[avgScore |-> Quotient(0, 1), maxScore |-> 0, minScore |-> 0,
           gradeDistribution |-> <<>>]}
    ELSE LET scores == [i \in DOMAIN results |-> ScoreOf(results[i])]
         IN  {[avgScore          |-> Quotient(ReduceSum(scores), Len(scores)),
               maxScore          |-> MathMax(scores),
               minScore          |-> MathMin(scores),
               gradeDistribution |-> GradeDistribution(results)]}

\* the distribution counts the labels the default table gives the scores,
\* not the labels of the results
calculateStatsReclassifying(results) ==
    IF Len(results) = 0 THEN {}
    ELSE LET scores == [i \in DOMAIN results |-> ScoreOf(results[i])]
             labels == [i \in DOMAIN results |-> classify(scores[i], DefaultThresholds)]
         IN  {[avgScore          |-> Quotient(ReduceSum(scores), Len(scores)),
               maxScore          |-> MathMax(scores),
               minScore          |-> MathMin(scores),
               gradeDistribution |->
                   [g \in {labels[i] : i \in DOMAIN results} |->
                       Cardinality({i \in DOMAIN results : labels[i] = g})]]}

\* null ({}) for an empty collection, else the statistics
calculateStats(results) ==
    IF Len(results) = 0 THEN {}
    ELSE LET scores == [i \in DOMAIN results |-> ScoreOf(results[i])]
         IN  {[avgScore          |-> Quotient(ReduceSum(scores), Len(scores)),
               maxScore          |-> MathMax(scores),
               minScore          |-> MathMin(scores),
               gradeDistribution |-> GradeDistribution(results)]}

\* what the statistics panel prints: (courseStats || testStats)?.x || 0
DisplayedStat(courseStats, testStats, field) ==
    LET stats == IF courseStats # {} THEN courseStats ELSE testStats
    IN  IF stats = {} THEN 0 ELSE (CHOOSE s \in stats : TRUE)[field]

\* ------------------------------------------------------------------------
\* parseInt of the text of a threshold input   (GradingInterface.tsx, 507)
\* ------------------------------------------------------------------------
Digits == <<"0", "1", "2", "3", "4", "5", "6", "7", "8", "9">>

IsDigit(c) == \E d \in DOMAIN Digits : Digits[d] = c

DigitValue(c) == (CHOOSE d \in DOMAIN Digits : Digits[d] = c) - 1

\* the value of the leading digits of text, acc being the value read so far
RECURSIVE ParseDigits(_, _)
ParseDigits(text, acc) ==
    IF text = <<>> \/ ~IsDigit(Head(text)) THEN acc
    ELSE ParseDigits(Tail(text), 10 * acc + DigitValue(Head(text)))

\* optional sign, then the leading digits; NaN when there is no digit
parseInt(text) ==
    LET neg  == text # <<>> /\ Head(text) = "-"
        body == IF text # <<>> /\ Head(text) \in {"-", "+"} THEN Tail(text) ELSE text
    IN  IF body = <<>> \/ ~IsDigit(Head(body)) THEN NaN
        ELSE IF neg THEN -ParseDigits(body, 0) ELSE ParseDigits(body, 0)

\* ------------------------------------------------------------------------
\* What the user can type and what the backend can answer
\* ------------------------------------------------------------------------
\* texts of a threshold input: empty, in range
InputTexts == {<<>>, <<"9", "5">>}

\* the edits tried: the input of a grade and the text typed into it
ThresholdEdits ==
    {<<"B", <<"9", "5">>>>, <<"D", <<>>>>}

\* the table GET /grade-thresholds returns
BackendThresholds == [A |-> 85, B |-> 75, C |-> 65, D |-> 50, F |-> 0]

\* GradingResult values as the grading service returns them (scores in tenths)
Result1 ==
    [student_roll_no |-> "s1", question_id |-> "q1", score |-> 850,
     grade |-> "A", points_earned |-> 8]

Result2 ==
    [student_roll_no |-> "s2", question_id |-> "q2", score |-> 600,
     grade |-> "D", points_earned |-> 6]

\* Question.points of the questions, known to the grading service only
QuestionPoints == [q1 |-> 10, q2 |-> 10]

\* the question results as aggregateOverall reads them
WithMaxPoints(question_results) ==
    [i \in DOMAIN question_results |->
        [points_earned |-> question_results[i].points_earned,
         max_points    |-> QuestionPoints[question_results[i].question_id]]]

\* the TestGradingResult the grading service builds for one student: the
\* overall values are aggregateOverall of the question results under the
\* table the service holds
GradedTest(test_id, student_roll_no, question_results) ==
    LET overall == aggregateOverall(WithMaxPoints(question_results), BackendThresholds)
    IN  [test_id             |-> test_id,
         student_roll_no     |-> student_roll_no,
         overall_score       |-> overall.overall_score,
         overall_grade       |-> overall.overall_grade,
         total_points_earned |-> overall.total_points_earned,
         question_results    |-> question_results]

\* TestGradingResult values as the grading service returns them
TestResult1 == GradedTest("t1", "s1", <<Result1, Result2>>)

TestResult2 == GradedTest("t1", "s2", <<Result1>>)

TestResult3 == GradedTest("t1", "s3", <<Result1, Result2>>)

\* response.data of POST /grade/course/{id}: null, no answers, answers
CourseResponses == {{}, {<<>>}, {<<Result1, Result2>>}}

\* response.data of POST /grade-test/{id}
TestResponses == {{}, {<<>>}, {<<TestResult1, TestResult2, TestResult3>>}}

\* coursesRes.data, testsRes.data, thresholdsRes.data of fetchData
CoursesResponses == {{}, {<<"c1">>}}

TestsResponses == {{}, {<<[id |-> "t1", course_id |-> "c1"]>>}}

ThresholdsResponses == {{}, {BackendThresholds}}

\* x ?? d
Nullish(x, d) == IF x = {} THEN d ELSE CHOOSE v \in x : TRUE

\* ------------------------------------------------------------------------
\* State
\* ------------------------------------------------------------------------
VARIABLES
    \* useState of GradingInterface (lines 31-48)
    courses, tests, selectedCourseId, selectedTestId, selectedCourseForTest,
    loading, gradingResults, testGradingResults, gradeThresholds,
    showThresholdsModal, thresholdsForm,
    \* the toast the last step showed, [type, message]; NoToast when it showed none
    toast,
    \* fetchData's promise: [status, thresholds], status "pending", "fulfilled"
    \* or "rejected", thresholds the thresholdsRes.data it was fulfilled with
    fetchState,
    \* the grading requests awaiting their response, oldest first; a request
    \* is [kind, superseded], superseded once a later request was issued
    inFlight,
    \* the grading call the last step settled: [kind, status, handler], status
    \* of the API promise and how the handler's own promise settled; NoCall
    \* when the last step settled none
    lastSettled,
    \* response.data ?? [] of the last fulfilled call that was not
    \* superseded, as {[kind, data]}; {} when there is none
    lastFulfilled,
    \* the result set held before the last step: "none", "course" or "test"
    heldBefore,
    \* the updateGradeThresholds calls in flight, [id, form], form being the
    \* thresholdsForm the handler's closure captured
    thresholdUpdates,
    \* number of updateGradeThresholds calls issued / of the form's edits
    updatesIssued, edits,
    \* what the statistics panel shows after the last render: {} when it is
    \* not rendered, else {[avgScore, maxScore, minScore, total]}
    statsPanel,
    \* a call of a pure function: its arguments and its result
    call, ret

sessionVars ==
    <<courses, tests, selectedCourseId, selectedTestId, selectedCourseForTest,
      loading, gradingResults, testGradingResults, gradeThresholds,
      showThresholdsModal, thresholdsForm, toast, fetchState, inFlight,
      lastSettled, lastFulfilled, heldBefore, thresholdUpdates, updatesIssued,
      edits, statsPanel>>

pureVars == <<call, ret>>

VARIABLES
    \* localStorage 'token': {} when there is none
    storedToken,
    \* useState of AuthProvider (AuthContext.tsx, lines 38-40)
    user, token, authLoading,
    \* api.defaults.headers.common['Authorization'], the token after "Bearer "
    defaultAuthorization,
    \* the effect on [token] has yet to run for the latest render
    tokenEffectDue,
    \* the path shown, and the path window.location.href was set to while the
    \* browser has not loaded it yet ({} when none)
    location, navigating,
    \* the requests of the axios instance awaiting their response, oldest
    \* first: [url, authorization, from]
    apiRequests,
    \* what the last step did: the requests it sent, the response it handled,
    \* the value login() resolved with ({} when it did not), the toast shown
    sent, lastResponse, loginResult, authToast

authVars ==
    <<storedToken, user, token, authLoading, defaultAuthorization,
      tokenEffectDue, location, navigating, apiRequests, sent, lastResponse,
      loginResult, authToast>>

VARIABLES
    \* StudentTests' state: the test being taken ({} for null), the modal,
    \* the flags and the seconds left
    selectedTest, showTestModal, testLoading, testSubmitted, timeRemaining,
    \* the requests of StudentTests awaiting their response, oldest first:
    \* [api, duration]
    testRequests,
    \* the selectedTest that the submitTest of the running interval reads:
    \* the one of the render in which the timer effect last ran
    intervalTest,
    \* the test was started (its questions arrived while it was selected)
    \* and its modal has not been closed since
    started,
    \* submitTestAnswers requests sent since the test was last started
    submitsSent,
    \* the seconds the timer showed before the last step, {} when that step
    \* was not a tick of the timer
    tickedFrom,
    \* clicks on Start Test / on Submit Test so far
    startClicks, submitClicks

studentVars ==
    <<selectedTest, showTestModal, testLoading, testSubmitted, timeRemaining,
      testRequests, intervalTest, started, submitsSent, tickedFrom,
      startClicks, submitClicks>>

vars == <<sessionVars, pureVars, authVars, studentVars>>

\* no call: of a pure function, or of the grading API
NoCall == [fn |-> "none", kind |-> "none", status |-> "none"]

NoToast == [type |-> "none", message |-> ""]

\* toast.success(message)
ToastSuccess(message) == [type |-> "success", message |-> message]

\* toast.error(message)
ToastError(message) == [type |-> "error", message |-> message]

\* which result set is displayed
Held ==
    IF gradingResults # <<>> THEN "course"
    ELSE IF testGradingResults # <<>> THEN "test" ELSE "none"

\* the component after its first render, fetchData issued by the effect
SessionInit ==
    /\ courses = <<>>
    /\ tests = <<>>
    /\ selectedCourseId = ""
    /\ selectedTestId = ""
    /\ selectedCourseForTest = ""
    /\ loading = FALSE
    /\ gradingResults = <<>>
    /\ testGradingResults = <<>>
    /\ gradeThresholds = {}
    /\ showThresholdsModal = FALSE
    /\ thresholdsForm = DefaultThresholds
    /\ toast = NoToast
    /\ fetchState = [status |-> "pending", thresholds |-> {}]
    /\ inFlight = <<>>
    /\ lastSettled = NoCall
    /\ lastFulfilled = {}
    /\ heldBefore = "none"
    /\ thresholdUpdates = {}
    /\ updatesIssued = 0
    /\ edits = 0
    /\ statsPanel = {}

\* no response handled in the last step
NoResponse ==
    [url |-> "none", status |-> 0, access_token |-> {}, settled |-> "none"]

\* the auth context while the grading interface is shown: signed in, idle
AuthSignedIn ==
    /\ storedToken = {"jwt1"}
    /\ token = {"jwt1"}
    /\ user = {"teacher"}
    /\ authLoading = FALSE
    /\ defaultAuthorization = {"jwt1"}
    /\ tokenEffectDue = FALSE
    /\ location = "/dashboard"
    /\ navigating = {}
    /\ apiRequests = <<>>
    /\ sent = <<>>
    /\ lastResponse = NoResponse
    /\ loginResult = {}
    /\ authToast = NoToast

\* StudentTests after its first render            (part_003, 30-36)
StudentTestsInit ==
    /\ selectedTest = {}
    /\ showTestModal = FALSE
    /\ testLoading = FALSE
    /\ testSubmitted = FALSE
    /\ timeRemaining = 0
    /\ testRequests = <<>>
    /\ intervalTest = {}
    /\ started = FALSE
    /\ submitsSent = 0
    /\ tickedFrom = {}
    /\ startClicks = 0
    /\ submitClicks = 0

Init ==
    /\ SessionInit
    /\ AuthSignedIn
    /\ StudentTestsInit
    /\ call = NoCall
    /\ ret = {}

\* ------------------------------------------------------------------------
\* The render that follows a state change          (lines 183-184, 319-352)
\* ------------------------------------------------------------------------
\* the statistics panel for the results of a render: courseStats and
\* testStats are computed anew, the panel shows (courseStats || testStats)
StatsPanel(courseResults, testResults) ==
    LET courseStats == calculateStats(courseResults)
        testStats   == calculateStats(testResults)
        shown       == IF courseStats # {} THEN courseStats ELSE testStats
    IN  IF (Len(courseResults) > 0 \/ Len(testResults) > 0) /\ shown # {}
        THEN {[avgScore |-> stats.avgScore,
               maxScore |-> stats.maxScore,
               minScore |-> stats.minScore,
               total    |-> Len(courseResults) + Len(testResults)] :
                  stats \in shown}
        ELSE {}

\* statistics that are computed once and kept for the later renders
RenderKeepingStats ==
    statsPanel' = IF statsPanel # {} THEN statsPanel
                  ELSE StatsPanel(gradingResults', testGradingResults')

\* the component renders with the state the step leaves
Render == statsPanel' = StatsPanel(gradingResults', testGradingResults')

\* ------------------------------------------------------------------------
\* fetchData                                        (lines 50-77)
\* ------------------------------------------------------------------------
\* the fetched table becomes the stored table and the form keeps its values
ApplyFetchedThresholdsKeepingForm(thresholdsRes) ==
    /\ gradeThresholds' = IF thresholdsRes # {} THEN thresholdsRes ELSE gradeThresholds
    /\ UNCHANGED thresholdsForm

\* if (thresholdsRes.data) { setGradeThresholds(...); setThresholdsForm(...) }
ApplyFetchedThresholds(thresholdsRes) ==
    IF thresholdsRes # {}
    THEN /\ gradeThresholds' = thresholdsRes
         /\ thresholdsForm' = Nullish(thresholdsRes, DefaultThresholds)
    ELSE UNCHANGED <<gradeThresholds, thresholdsForm>>

FetchDataFulfilled ==
    /\ fetchState.status = "pending"
    /\ \E coursesRes \in CoursesResponses, testsRes \in TestsResponses,
          thresholdsRes \in ThresholdsResponses :
        /\ courses' = Nullish(coursesRes, <<>>)
        /\ tests' = Nullish(testsRes, <<>>)
        /\ ApplyFetchedThresholds(thresholdsRes)
        /\ fetchState' = [status |-> "fulfilled", thresholds |-> thresholdsRes]
        /\ IF coursesRes # {} /\ Len(Nullish(coursesRes, <<>>)) > 0
           THEN /\ selectedCourseId' = Nullish(coursesRes, <<>>)[1]
                /\ selectedCourseForTest' = Nullish(coursesRes, <<>>)[1]
           ELSE UNCHANGED <<selectedCourseId, selectedCourseForTest>>
    /\ toast' = NoToast
    /\ lastSettled' = NoCall
    /\ heldBefore' = Held
    /\ UNCHANGED <<selectedTestId, loading, gradingResults,
                   testGradingResults, showThresholdsModal, thresholdUpdates,
                   updatesIssued, edits, inFlight, lastFulfilled, pureVars, authVars,
                   studentVars>>
    /\ Render

FetchDataRejected ==
    /\ fetchState.status = "pending"
    /\ fetchState' = [status |-> "rejected", thresholds |-> {}]
    /\ toast' = ToastError("Failed to fetch courses and tests")
    /\ lastSettled' = NoCall
    /\ heldBefore' = Held
    /\ UNCHANGED <<courses, tests, selectedCourseId, selectedTestId,
                   selectedCourseForTest, loading, gradingResults,
                   testGradingResults, gradeThresholds, showThresholdsModal,
                   thresholdsForm, thresholdUpdates, updatesIssued, edits,
                   inFlight, lastFulfilled, pureVars, authVars,
                   studentVars>>
    /\ Render

\* ------------------------------------------------------------------------
\* The selects                                      (lines 231-296)
\* ------------------------------------------------------------------------
CourseIds == {""} \cup {courses[i] : i \in DOMAIN courses}

SelectCourse ==
    /\ \E id \in CourseIds \ {selectedCourseId} : selectedCourseId' = id
    /\ toast' = NoToast
    /\ lastSettled' = NoCall
    /\ heldBefore' = Held
    /\ UNCHANGED <<courses, tests, selectedTestId, selectedCourseForTest,
                   loading, gradingResults, testGradingResults,
                   gradeThresholds, showThresholdsModal, thresholdsForm,
                   fetchState, thresholdUpdates, updatesIssued, edits,
                   inFlight, lastFulfilled, pureVars, authVars,
                   studentVars>>
    /\ Render

SelectCourseForTest ==
    /\ \E id \in CourseIds \ {selectedCourseForTest} : selectedCourseForTest' = id
    /\ selectedTestId' = ""
    /\ toast' = NoToast
    /\ lastSettled' = NoCall
    /\ heldBefore' = Held
    /\ UNCHANGED <<courses, tests, selectedCourseId, loading, gradingResults,
                   testGradingResults, gradeThresholds, showThresholdsModal,
                   thresholdsForm, fetchState, thresholdUpdates,
                   updatesIssued, edits, inFlight, lastFulfilled, pureVars, authVars,
                   studentVars>>
    /\ Render

\* the options of the test select: the tests of the chosen course
TestIds ==
    {""} \cup {tests[i].id : i \in {j \in DOMAIN tests :
                                       tests[j].course_id = selectedCourseForTest}}

SelectTest ==
    /\ selectedCourseForTest # ""
    /\ \E id \in TestIds \ {selectedTestId} : selectedTestId' = id
    /\ toast' = NoToast
    /\ lastSettled' = NoCall
    /\ heldBefore' = Held
    /\ UNCHANGED <<courses, tests, selectedCourseId, selectedCourseForTest,
                   loading, gradingResults, testGradingResults,
                   gradeThresholds, showThresholdsModal, thresholdsForm,
                   fetchState, thresholdUpdates, updatesIssued, edits,
                   inFlight, lastFulfilled, pureVars, authVars,
                   studentVars>>
    /\ Render

\* ------------------------------------------------------------------------
\* handleGradeCourse and handleGradeTest            (lines 79-127)
\* ------------------------------------------------------------------------
\* a Grade button that stays enabled while a request is outstanding
GradeButtonEnabledWhileLoading(selectedId) == selectedId # ""

\* disabled={!selectedId || loading}                (lines 245, 299)
GradeButtonEnabled(selectedId) == selectedId # "" /\ ~loading

\* a handler without its finally block
FinallyKeepLoading == UNCHANGED loading

\* finally { setLoading(false); }                  (lines 99-101, 124-126)
FinallyStopLoading == loading' = FALSE

\* the requests in flight, all superseded by the one being issued
Supersede(requests) ==
    [i \in DOMAIN requests |-> [requests[i] EXCEPT !.superseded = TRUE]]

\* the click and the handler up to its await
GradeCourseClick ==
    /\ GradeButtonEnabled(selectedCourseId)
    /\ Len(inFlight) < MaxInFlight
    /\ IF selectedCourseId = ""
       THEN /\ toast' = ToastError("Please select a course to grade")
            /\ UNCHANGED <<loading, inFlight>>
       ELSE /\ loading' = TRUE
            /\ inFlight' = Append(Supersede(inFlight),
                                  [kind |-> "course", superseded |-> FALSE])
            /\ toast' = NoToast
    /\ lastSettled' = NoCall
    /\ heldBefore' = Held
    /\ UNCHANGED <<courses, tests, selectedCourseId, selectedTestId,
                   selectedCourseForTest, gradingResults, testGradingResults,
                   gradeThresholds, showThresholdsModal, thresholdsForm,
                   fetchState, lastFulfilled, thresholdUpdates, updatesIssued,
                   edits, pureVars, authVars,
                   studentVars>>
    /\ Render

GradeTestClick ==
    /\ GradeButtonEnabled(selectedTestId)
    /\ Len(inFlight) < MaxInFlight
    /\ IF selectedTestId = ""
       THEN /\ toast' = ToastError("Please select a test to grade")
            /\ UNCHANGED <<loading, inFlight>>
       ELSE /\ loading' = TRUE
            /\ inFlight' = Append(Supersede(inFlight),
                                  [kind |-> "test", superseded |-> FALSE])
            /\ toast' = NoToast
    /\ lastSettled' = NoCall
    /\ heldBefore' = Held
    /\ UNCHANGED <<courses, tests, selectedCourseId, selectedTestId,
                   selectedCourseForTest, gradingResults, testGradingResults,
                   gradeThresholds, showThresholdsModal, thresholdsForm,
                   fetchState, lastFulfilled, thresholdUpdates, updatesIssued,
                   edits, pureVars, authVars,
                   studentVars>>
    /\ Render

\* the i-th request is sent again when it settles, so it stays in flight
WithoutButRetried(requests, i) == requests

\* the requests in flight without the i-th
Without(requests, i) ==
    [j \in 1..(Len(requests) - 1) |-> IF j < i THEN requests[j] ELSE requests[j + 1]]

\* the response of request i has arrived and its handler has run to the end
ResponseApplied(i, data) ==
    /\ lastSettled' = [kind |-> inFlight[i].kind, status |-> "fulfilled",
                       handler |-> "returned"]
    /\ lastFulfilled' = IF inFlight[i].superseded THEN lastFulfilled
                        ELSE {[kind |-> inFlight[i].kind,
                               data |-> {Nullish(data, <<>>)}]}
    /\ heldBefore' = Held
    /\ inFlight' = Without(inFlight, i)

\* the course response replaces the course results and keeps the test results
CourseResponseKeepingTestResults(data) ==
    /\ gradingResults' = Nullish(data, <<>>)
    /\ UNCHANGED testGradingResults

\* setGradingResults(response.data ?? []); setTestGradingResults([])
ApplyCourseResponse(data) ==
    /\ gradingResults' = Nullish(data, <<>>)
    /\ testGradingResults' = <<>>

\* the test response replaces the test results and keeps the course results
TestResponseKeepingCourseResults(data) ==
    /\ testGradingResults' = Nullish(data, <<>>)
    /\ UNCHANGED gradingResults

\* the client works out overall_score itself, as the mean of the question
\* scores, instead of keeping the value of the response
TestResponseRecomputingOverall(data) ==
    /\ testGradingResults' =
           [i \in DOMAIN Nullish(data, <<>>) |->
               LET r == Nullish(data, <<>>)[i]
                   scores == [j \in DOMAIN r.question_results |-> r.question_results[j].score]
               IN  [r EXCEPT !.overall_score = ReduceSum(scores) \div Len(scores)]]
    /\ gradingResults' = <<>>

\* setTestGradingResults(response.data ?? []); setGradingResults([])
ApplyTestResponse(data) ==
    /\ testGradingResults' = Nullish(data, <<>>)
    /\ gradingResults' = <<>>

\* the rest of handleGradeCourse once the request succeeded
GradeCourseFulfilled(i) ==
    /\ inFlight[i].kind = "course"
    /\ \E data \in CourseResponses :
        /\ ApplyCourseResponse(data)
        /\ toast' = IF data # {} /\ Len(Nullish(data, <<>>)) > 0
                    THEN ToastSuccess("Successfully graded "
                                      \o ToString(Len(Nullish(data, <<>>)))
                                      \o " answers")
                    ELSE ToastSuccess("No answers found to grade for this course")
        /\ ResponseApplied(i, data)
    /\ FinallyStopLoading
    /\ UNCHANGED <<courses, tests, selectedCourseId, selectedTestId,
                   selectedCourseForTest, gradeThresholds,
                   showThresholdsModal, thresholdsForm, fetchState,
                   thresholdUpdates, updatesIssued, edits, pureVars, authVars,
                   studentVars>>
    /\ Render

GradeTestFulfilled(i) ==
    /\ inFlight[i].kind = "test"
    /\ \E data \in TestResponses :
        /\ ApplyTestResponse(data)
        /\ toast' = IF data # {} /\ Len(Nullish(data, <<>>)) > 0
                    THEN ToastSuccess("Successfully graded "
                                      \o ToString(Len(Nullish(data, <<>>)))
                                      \o " test submissions")
                    ELSE ToastSuccess("No test submissions found to grade")
        /\ ResponseApplied(i, data)
    /\ FinallyStopLoading
    /\ UNCHANGED <<courses, tests, selectedCourseId, selectedTestId,
                   selectedCourseForTest, gradeThresholds,
                   showThresholdsModal, thresholdsForm, fetchState,
                   thresholdUpdates, updatesIssued, edits, pureVars, authVars,
                   studentVars>>
    /\ Render

\* a catch block that throws GradingUnavailable on to the caller
CatchAndRethrow(kind, message) ==
    /\ toast' = ToastError(message)
    /\ lastSettled' = [kind |-> kind, status |-> "rejected", handler |-> "threw"]
    /\ UNCHANGED <<gradingResults, testGradingResults>>

\* a catch block that drops what is displayed
CatchAndClear(kind, message) ==
    /\ toast' = ToastError(message)
    /\ lastSettled' = [kind |-> kind, status |-> "rejected", handler |-> "returned"]
    /\ gradingResults' = <<>>
    /\ testGradingResults' = <<>>

\* catch: console.error, toast.error; the handler then returns normally
CatchGradingError(kind, message) ==
    /\ toast' = ToastError(message)
    /\ lastSettled' = [kind |-> kind, status |-> "rejected", handler |-> "returned"]
    /\ UNCHANGED <<gradingResults, testGradingResults>>

\* the rest of handleGradeCourse once the request failed
GradeCourseRejected(i) ==
    /\ inFlight[i].kind = "course"
    /\ CatchGradingError("course", "Failed to grade course answers")
    /\ inFlight' = Without(inFlight, i)
    /\ FinallyStopLoading
    /\ heldBefore' = Held
    /\ UNCHANGED <<courses, tests, selectedCourseId, selectedTestId,
                   selectedCourseForTest, gradeThresholds,
                   showThresholdsModal, thresholdsForm, fetchState,
                   lastFulfilled, thresholdUpdates, updatesIssued, edits,
                   pureVars, authVars,
                   studentVars>>
    /\ Render

GradeTestRejected(i) ==
    /\ inFlight[i].kind = "test"
    /\ CatchGradingError("test", "Failed to grade test")
    /\ inFlight' = Without(inFlight, i)
    /\ FinallyStopLoading
    /\ heldBefore' = Held
    /\ UNCHANGED <<courses, tests, selectedCourseId, selectedTestId,
                   selectedCourseForTest, gradeThresholds,
                   showThresholdsModal, thresholdsForm, fetchState,
                   lastFulfilled, thresholdUpdates, updatesIssued, edits,
                   pureVars, authVars,
                   studentVars>>
    /\ Render

\* ------------------------------------------------------------------------
\* The thresholds modal and handleUpdateThresholds  (lines 129-139, 471-533)
\* ------------------------------------------------------------------------
\* "Grade Thresholds" button (line 215)
OpenThresholdsModal ==
    /\ ~showThresholdsModal
    /\ showThresholdsModal' = TRUE
    /\ toast' = NoToast
    /\ lastSettled' = NoCall
    /\ heldBefore' = Held
    /\ UNCHANGED <<courses, tests, selectedCourseId, selectedTestId,
                   selectedCourseForTest, loading, gradingResults,
                   testGradingResults, gradeThresholds, thresholdsForm,
                   fetchState, thresholdUpdates, updatesIssued, edits,
                   inFlight, lastFulfilled, pureVars, authVars,
                   studentVars>>
    /\ Render

\* the X and the Cancel button (lines 479, 518)
CloseThresholdsModal ==
    /\ showThresholdsModal
    /\ showThresholdsModal' = FALSE
    /\ toast' = NoToast
    /\ lastSettled' = NoCall
    /\ heldBefore' = Held
    /\ UNCHANGED <<courses, tests, selectedCourseId, selectedTestId,
                   selectedCourseForTest, loading, gradingResults,
                   testGradingResults, gradeThresholds, thresholdsForm,
                   fetchState, thresholdUpdates, updatesIssued, edits,
                   inFlight, lastFulfilled, pureVars, authVars,
                   studentVars>>
    /\ Render

\* setThresholdsForm(prev => ({...prev, [grade]: parseInt(e.target.value)}))
SetThreshold(form, grade, text) == [form EXCEPT ![grade] = parseInt(text)]

\* onChange of one threshold input (lines 500-510)
EditThreshold ==
    /\ showThresholdsModal
    /\ edits < MaxEdits
    /\ \E edit \in ThresholdEdits :
        /\ edit[1] \in DOMAIN thresholdsForm
        /\ edit[2] \in InputTexts
        /\ thresholdsForm' = SetThreshold(thresholdsForm, edit[1], edit[2])
    /\ edits' = edits + 1
    /\ toast' = NoToast
    /\ lastSettled' = NoCall
    /\ heldBefore' = Held
    /\ UNCHANGED <<courses, tests, selectedCourseId, selectedTestId,
                   selectedCourseForTest, loading, gradingResults,
                   testGradingResults, gradeThresholds, showThresholdsModal,
                   fetchState, thresholdUpdates, updatesIssued, inFlight,
                   lastFulfilled, pureVars, authVars,
                   studentVars>>
    /\ Render

\* a request that carries the table put into descending order, each cutoff
\* capped by the cutoffs of the grades above it
UpdateRequestNormalised(id, form) ==
    LET capped(grade) ==
            LET i == CHOOSE k \in DOMAIN GradeOrder : GradeOrder[k] = grade
            IN  CHOOSE m \in {form[GradeOrder[j]] : j \in 1..i} :
                    \A j \in 1..i : m <= form[GradeOrder[j]]
    IN  [id |-> id, form |-> [g \in Grades |-> capped(g)]]

\* gradingAPI.updateGradeThresholds(thresholdsForm): api.put of the form
UpdateRequest(id, form) == [id |-> id, form |-> form]

\* "Update Thresholds": the handler up to its await
UpdateThresholdsClick ==
    /\ showThresholdsModal
    /\ updatesIssued < MaxUpdates
    /\ updatesIssued' = updatesIssued + 1
    /\ thresholdUpdates' =
           thresholdUpdates \cup {UpdateRequest(updatesIssued + 1, thresholdsForm)}
    /\ toast' = NoToast
    /\ lastSettled' = NoCall
    /\ heldBefore' = Held
    /\ UNCHANGED <<courses, tests, selectedCourseId, selectedTestId,
                   selectedCourseForTest, loading, gradingResults,
                   testGradingResults, gradeThresholds, showThresholdsModal,
                   thresholdsForm, fetchState, edits, inFlight, lastFulfilled,
                   pureVars, authVars,
                   studentVars>>
    /\ Render

\* an update that also drops the results graded under the old table
UpdateFulfilledDroppingResults(u) ==
    /\ gradeThresholds' = {u.form}
    /\ gradingResults' = <<>>
    /\ testGradingResults' = <<>>

\* setGradeThresholds(thresholdsForm), the form of the handler's closure
ApplyThresholdsUpdate(u) ==
    /\ gradeThresholds' = {u.form}
    /\ UNCHANGED <<gradingResults, testGradingResults>>

UpdateThresholdsFulfilled ==
    /\ \E u \in thresholdUpdates :
        /\ ApplyThresholdsUpdate(u)
        /\ thresholdUpdates' = thresholdUpdates \ {u}
    /\ showThresholdsModal' = FALSE
    /\ toast' = ToastSuccess("Grade thresholds updated successfully")
    /\ lastSettled' = NoCall
    /\ heldBefore' = Held
    /\ UNCHANGED <<courses, tests, selectedCourseId, selectedTestId,
                   selectedCourseForTest, loading, thresholdsForm, fetchState,
                   updatesIssued, edits, inFlight, lastFulfilled, pureVars, authVars,
                   studentVars>>
    /\ Render

UpdateThresholdsRejected ==
    /\ \E u \in thresholdUpdates : thresholdUpdates' = thresholdUpdates \ {u}
    /\ toast' = ToastError("Failed to update grade thresholds")
    /\ lastSettled' = NoCall
    /\ heldBefore' = Held
    /\ UNCHANGED <<courses, tests, selectedCourseId, selectedTestId,
                   selectedCourseForTest, loading, gradingResults,
                   testGradingResults, gradeThresholds, showThresholdsModal,
                   thresholdsForm, fetchState, updatesIssued, edits, inFlight,
                   lastFulfilled, pureVars, authVars,
                   studentVars>>
    /\ Render

\* ------------------------------------------------------------------------
\* The grading review session
\* ------------------------------------------------------------------------
Next ==
    \/ FetchDataFulfilled
    \/ FetchDataRejected
    \/ SelectCourse
    \/ SelectCourseForTest
    \/ SelectTest
    \/ GradeCourseClick
    \/ GradeTestClick
    \/ \E i \in DOMAIN inFlight : GradeCourseFulfilled(i)
    \/ \E i \in DOMAIN inFlight : GradeCourseRejected(i)
    \/ \E i \in DOMAIN inFlight : GradeTestFulfilled(i)
    \/ \E i \in DOMAIN inFlight : GradeTestRejected(i)
    \/ OpenThresholdsModal
    \/ CloseThresholdsModal
    \/ EditThreshold
    \/ UpdateThresholdsClick
    \/ UpdateThresholdsFulfilled
    \/ UpdateThresholdsRejected

Spec == Init /\ [][Next]_vars

\* ------------------------------------------------------------------------
\* Dashboard and Sidebar        (components/Dashboard, layout/Sidebar.tsx)
\* ------------------------------------------------------------------------
\* user.role
Roles == {"teacher", "student", "admin"}

\* the paths below the dashboard that have a Route, and one that has none
DashboardPaths ==
    {"/", "/courses", "/questions", "/tests", "/grading", "/answers", "/profile",
     "/dashboard", "/dashboard/courses", "/dashboard/questions",
     "/dashboard/tests", "/dashboard/grading", "/dashboard/answers",
     "/dashboard/profile", "/elsewhere"}

NavItem(name, href) == [name |-> name, href |-> href]

\* const navigation (teacher and every role that is neither student nor admin)
navigation ==
    <<NavItem("Dashboard", "/dashboard"), NavItem("Courses", "/dashboard/courses"),
      NavItem("Questions", "/dashboard/questions"), NavItem("Tests", "/dashboard/tests"),
      NavItem("Grading", "/dashboard/grading"),
      NavItem("Student Answers", "/dashboard/answers"),
      NavItem("Profile", "/dashboard/profile")>>

studentNavigation ==
    <<NavItem("Dashboard", "/dashboard"), NavItem("My Courses", "/dashboard/courses"),
      NavItem("Tests", "/dashboard/tests"), NavItem("My Answers", "/dashboard/answers"),
      NavItem("Profile", "/dashboard/profile")>>

adminNavigation ==
    <<NavItem("Dashboard", "/dashboard"), NavItem("All Courses", "/dashboard/courses"),
      NavItem("All Questions", "/dashboard/questions"),
      NavItem("All Tests", "/dashboard/tests"), NavItem("Grading", "/dashboard/grading"),
      NavItem("All Answers", "/dashboard/answers"),
      NavItem("Profile", "/dashboard/profile")>>

\* switch (user?.role)
getNavigation(role) ==
    CASE role = "student" -> studentNavigation
      [] role = "admin" -> adminNavigation
      [] OTHER -> navigation

\* switch (user.role), the default being the teacher's dashboard
getDashboardContent(role) ==
    CASE role = "teacher" -> "TeacherDashboard"
      [] role = "student" -> "StudentDashboard"
      [] role = "admin" -> "AdminDashboard"
      [] OTHER -> "TeacherDashboard"

\* routes that render the component of the path whatever the role is
RouteElementForEveryRole(role, path) ==
    CASE path \in {"/", "/dashboard"} -> getDashboardContent(role)
      [] path \in {"/courses", "/dashboard/courses"} -> "CourseManagement"
      [] path \in {"/questions", "/dashboard/questions"} -> "QuestionManagement"
      [] path \in {"/tests", "/dashboard/tests"} -> "TestManagement"
      [] path \in {"/grading", "/dashboard/grading"} -> "GradingInterface"
      [] path \in {"/answers", "/dashboard/answers"} -> "StudentAnswers"
      [] path \in {"/profile", "/dashboard/profile"} -> "Profile"
      [] OTHER -> "null"

\* the element of the Route that matches path; "null" when the element is
\* null or no Route matches
RouteElement(role, path) ==
    CASE path \in {"/", "/dashboard"} -> getDashboardContent(role)
      [] path \in {"/courses", "/dashboard/courses"} ->
             IF role = "student" THEN "StudentCourses" ELSE "CourseManagement"
      [] path \in {"/questions", "/dashboard/questions"} ->
             IF role # "student" THEN "QuestionManagement" ELSE "null"
      [] path \in {"/tests", "/dashboard/tests"} ->
             IF role = "student" THEN "StudentTests" ELSE "TestManagement"
      [] path \in {"/grading", "/dashboard/grading"} ->
             IF role # "student" THEN "GradingInterface" ELSE "null"
      [] path \in {"/answers", "/dashboard/answers"} -> "StudentAnswers"
      [] path \in {"/profile", "/dashboard/profile"} -> "Profile"
      [] OTHER -> "null"

\* what Dashboard renders for the user of the auth context ({} is no user)
\* at a path: null ({}), or the sidebar's navigation and the main element
Dashboard(currentUser, path) ==
    IF currentUser = {} THEN {}
    ELSE LET role == CHOOSE r \in currentUser : TRUE
         IN  {[navigation |-> getNavigation(role),
               main       |-> RouteElement(role, path)]}

\* ------------------------------------------------------------------------
\* Calls of the pure functions on bounded inputs
\* ------------------------------------------------------------------------
\* the cutoffs the tables handed to classify are made of
CutoffValues == {0, 60, 70, 80, 90}

\* every table over CutoffValues with A >= B >= C >= D >= F >= 0
MonotoneTables == {t \in [Grades -> CutoffValues] : Monotone(t)}

\* scores, in tenths of a percent, on and around the cutoffs
ScoreSamples == {0, 500, 599, 600, 601, 799, 800, 801, 899, 900, 1000}

\* a question result as aggregateOverall reads it: points earned, maximum
QuestionSamples ==
    {[points_earned |-> 8, max_points |-> 10],
     [points_earned |-> 10, max_points |-> 10],
     [points_earned |-> 1, max_points |-> 16],
     [points_earned |-> 2, max_points |-> 3],
     [points_earned |-> 0, max_points |-> 0]}

RECURSIVE SeqsUpTo(_, _)
SeqsUpTo(S, n) ==
    IF n = 0 THEN {<<>>}
    ELSE LET shorter == SeqsUpTo(S, n - 1)
         IN  shorter \cup {Append(q, x) : q \in shorter, x \in S}

\* collections handed to calculateStats
ResultSamples ==
    {<<>>, <<Result1>>, <<Result2, Result1>>, <<Result1, Result2, Result1>>,
     <<TestResult1>>, <<TestResult1, TestResult2>>}

ClassifyCalls ==
    {[fn |-> "classify", score |-> s, thresholds |-> t] :
        s \in ScoreSamples, t \in MonotoneTables}

AggregateCalls ==
    {[fn |-> "aggregateOverall", questionResults |-> q, thresholds |-> t] :
        q \in SeqsUpTo(QuestionSamples, MaxQuestions),
        t \in {DefaultThresholds, BackendThresholds}}

StatsCalls == {[fn |-> "calculateStats", results |-> r] : r \in ResultSamples}

DashboardCalls ==
    {[fn |-> "Dashboard", user |-> u, path |-> p] :
        u \in {{}} \cup {{r} : r \in Roles}, p \in DashboardPaths}

PureInit ==
    /\ SessionInit
    /\ AuthSignedIn
    /\ StudentTestsInit
    /\ call \in ClassifyCalls \cup AggregateCalls \cup StatsCalls \cup DashboardCalls
    /\ ret = {}

ClassifyCall ==
    /\ call.fn = "classify"
    /\ ret = {}
    /\ ret' = {classify(call.score, call.thresholds)}
    /\ UNCHANGED <<call, sessionVars, authVars, studentVars>>

AggregateCall ==
    /\ call.fn = "aggregateOverall"
    /\ ret = {}
    /\ ret' = {aggregateOverall(call.questionResults, call.thresholds)}
    /\ UNCHANGED <<call, sessionVars, authVars, studentVars>>

StatsCall ==
    /\ call.fn = "calculateStats"
    /\ ret = {}
    /\ ret' = {calculateStats(call.results)}
    /\ UNCHANGED <<call, sessionVars, authVars, studentVars>>

DashboardCall ==
    /\ call.fn = "Dashboard"
    /\ ret = {}
    /\ ret' = {Dashboard(call.user, call.path)}
    /\ UNCHANGED <<call, sessionVars, authVars, studentVars>>

PureNext == ClassifyCall \/ AggregateCall \/ StatsCall \/ DashboardCall

SpecPure == PureInit /\ [][PureNext]_vars

\* the value a finished call returned
Returned == CHOOSE v \in ret : TRUE

\* ------------------------------------------------------------------------
\* The HTTP client and the auth context   (services/api.ts, AuthContext.tsx)
\* ------------------------------------------------------------------------
\* access_token values POST /auth/login hands out
Tokens == {"jwt1", "jwt2"}

\* the role of the user GET /users/profile returns
Profiles == {"teacher", "student"}

\* error.response.status of a failed request
ErrorStatuses == {401, 500}

\* the page as the browser has just loaded it: the provider's first render,
\* its effect not yet run
AuthInit ==
    /\ storedToken \in {{}, {"jwt1"}}
    /\ token = storedToken
    /\ user = {}
    /\ authLoading = TRUE
    /\ defaultAuthorization = {}
    /\ tokenEffectDue = TRUE
    /\ location \in {"/login", "/dashboard"}
    /\ navigating = {}
    /\ apiRequests = <<>>
    /\ sent = <<>>
    /\ lastResponse = NoResponse
    /\ loginResult = {}
    /\ authToast = NoToast

\* a request interceptor that leaves the config as it is
RequestInterceptorWithoutToken(config, stored) == config

\* api.interceptors.request: stored is localStorage.getItem('token')
RequestInterceptor(config, stored) ==
    IF stored # {} THEN [config EXCEPT !.authorization = stored] ELSE config

\* the request axios sends: the defaults merged in, then the interceptor
Request(url, from, defaults, stored) ==
    RequestInterceptor([url |-> url, authorization |-> defaults, from |-> from],
                       stored)

\* a response interceptor that treats the 401 of every request alike
UnauthorizedAnyUrl(status, url) == status = 401

\* api.interceptors.response, error branch: the 401 of an authenticated request
Unauthorized(status, url) == status = 401 /\ url # "/auth/login"

\* the useEffect on [token]                         (AuthContext.tsx, 66-72)
RunTokenEffect ==
    /\ tokenEffectDue
    /\ tokenEffectDue' = FALSE
    /\ IF token # {}
       THEN /\ Len(apiRequests) < MaxPending
            /\ LET request == Request("/users/profile", "effect",
                                       defaultAuthorization, storedToken)
               IN  /\ apiRequests' = Append(apiRequests, request)
                   /\ sent' = <<request>>
            /\ UNCHANGED authLoading
       ELSE /\ authLoading' = FALSE
            /\ sent' = <<>>
            /\ UNCHANGED apiRequests
    /\ lastResponse' = NoResponse
    /\ loginResult' = {}
    /\ authToast' = NoToast
    /\ UNCHANGED <<storedToken, user, token, defaultAuthorization, location,
                   navigating, sessionVars, pureVars, studentVars>>

\* the form of the login page is submitted (Login.tsx, 21-25):
\* login(credentials) up to its await                (AuthContext.tsx, 74-76)
LoginSubmit ==
    /\ location = "/login"
    /\ Len(apiRequests) < MaxPending
    /\ LET request == Request("/auth/login", "login", defaultAuthorization,
                               storedToken)
       IN  /\ apiRequests' = Append(apiRequests, request)
           /\ sent' = <<request>>
    /\ lastResponse' = NoResponse
    /\ loginResult' = {}
    /\ authToast' = NoToast
    /\ UNCHANGED <<storedToken, user, token, authLoading, defaultAuthorization,
                   tokenEffectDue, location, navigating, sessionVars, pureVars, studentVars>>

\* POST /auth/login succeeded: login() up to its await of fetchUserProfile
LoginFulfilled(i) ==
    /\ apiRequests[i].url = "/auth/login"
    /\ \E access_token \in Tokens :
        /\ token' = {access_token}
        /\ tokenEffectDue' = (tokenEffectDue \/ token # {access_token})
        /\ storedToken' = {access_token}
        /\ defaultAuthorization' = {access_token}
        /\ LET request == Request("/users/profile", "login", {access_token},
                                   {access_token})
           IN  /\ apiRequests' = Append(Without(apiRequests, i), request)
               /\ sent' = <<request>>
        /\ lastResponse' = [url |-> "/auth/login", status |-> 200,
                            access_token |-> {access_token},
                            settled |-> "fulfilled"]
    /\ loginResult' = {}
    /\ authToast' = NoToast
    /\ UNCHANGED <<user, authLoading, location, navigating, sessionVars,
                   pureVars, studentVars>>

\* JavaScript's ToBoolean of an object: true whatever its fields hold
ObjectToBoolean(object) == TRUE

\* Login.handleSubmit once login() has resolved with result: the test
\* `if (success)` is on the object login() returned, which is truthy
\* whatever its fields hold                           (Login.tsx, 25-29)
handleSubmitResumes(result) ==
    location' = IF ObjectToBoolean(result) THEN "/dashboard" ELSE location

\* POST /auth/login failed: the catch of login()    (AuthContext.tsx, 88-104)
LoginRejected(i) ==
    /\ apiRequests[i].url = "/auth/login"
    /\ \E status \in ErrorStatuses :
        /\ lastResponse' = [url |-> "/auth/login", status |-> status,
                            access_token |-> {}, settled |-> "rejected"]
        /\ IF status = 401
           THEN /\ loginResult' = {[success |-> FALSE,
                                     shouldRedirectToRegister |-> TRUE]}
                /\ authToast' = NoToast
           ELSE /\ loginResult' = {[success |-> FALSE,
                                     shouldRedirectToRegister |-> FALSE]}
                /\ authToast' = ToastError("Login failed")
        /\ IF Unauthorized(status, "/auth/login")
           THEN storedToken' = {} /\ navigating' = {"/login"}
           ELSE UNCHANGED <<storedToken, navigating>>
    /\ \E result \in loginResult' : handleSubmitResumes(result)
    /\ apiRequests' = Without(apiRequests, i)
    /\ sent' = <<>>
    /\ UNCHANGED <<user, token, authLoading, defaultAuthorization,
                   tokenEffectDue, sessionVars, pureVars, studentVars>>

\* what login() does once the fetchUserProfile it awaited has returned
\*                                                  (AuthContext.tsx, 85-87)
LoginResumes(from) ==
    IF from = "login"
    THEN /\ authToast' = ToastSuccess("Login successful!")
         /\ loginResult' = {[success |-> TRUE, shouldRedirectToRegister |-> FALSE]}
         /\ \E result \in loginResult' : handleSubmitResumes(result)
    ELSE /\ authToast' = NoToast
         /\ loginResult' = {}
         /\ UNCHANGED location

\* GET /users/profile succeeded: fetchUserProfile   (AuthContext.tsx, 49-59)
ProfileFulfilled(i) ==
    /\ apiRequests[i].url = "/users/profile"
    /\ \E profile \in Profiles : user' = {profile}
    /\ authLoading' = FALSE
    /\ LoginResumes(apiRequests[i].from)
    /\ lastResponse' = [url |-> "/users/profile", status |-> 200,
                        access_token |-> {}, settled |-> "fulfilled"]
    /\ apiRequests' = Without(apiRequests, i)
    /\ sent' = <<>>
    /\ UNCHANGED <<storedToken, token, defaultAuthorization, tokenEffectDue,
                   navigating, sessionVars, pureVars, studentVars>>

\* clearAuth()                                      (AuthContext.tsx, 42-47)
ClearAuth ==
    /\ user' = {}
    /\ token' = {}
    /\ tokenEffectDue' = (tokenEffectDue \/ token # {})
    /\ storedToken' = {}
    /\ defaultAuthorization' = {}

\* GET /users/profile failed: the response interceptor, then the catch and
\* the finally of fetchUserProfile
ProfileRejected(i) ==
    /\ apiRequests[i].url = "/users/profile"
    /\ \E status \in ErrorStatuses :
        /\ lastResponse' = [url |-> "/users/profile", status |-> status,
                            access_token |-> {}, settled |-> "rejected"]
        /\ navigating' = IF Unauthorized(status, "/users/profile")
                         THEN {"/login"} ELSE navigating
    /\ ClearAuth
    /\ authLoading' = FALSE
    /\ LoginResumes(apiRequests[i].from)
    /\ apiRequests' = Without(apiRequests, i)
    /\ sent' = <<>>
    /\ UNCHANGED <<sessionVars, pureVars, studentVars>>

\* a component of the dashboard calls the API (gradingAPI and the others)
ComponentRequest ==
    /\ Len(apiRequests) < MaxPending
    /\ LET request == Request("/grade-thresholds", "component",
                               defaultAuthorization, storedToken)
       IN  /\ apiRequests' = Append(apiRequests, request)
           /\ sent' = <<request>>
    /\ lastResponse' = NoResponse
    /\ loginResult' = {}
    /\ authToast' = NoToast
    /\ UNCHANGED <<storedToken, user, token, authLoading, defaultAuthorization,
                   tokenEffectDue, location, navigating, sessionVars, pureVars, studentVars>>

ComponentFulfilled(i) ==
    /\ apiRequests[i].from = "component"
    /\ lastResponse' = [url |-> apiRequests[i].url, status |-> 200,
                        access_token |-> {}, settled |-> "fulfilled"]
    /\ apiRequests' = Without(apiRequests, i)
    /\ sent' = <<>>
    /\ loginResult' = {}
    /\ authToast' = NoToast
    /\ UNCHANGED <<storedToken, user, token, authLoading, defaultAuthorization,
                   tokenEffectDue, location, navigating, sessionVars, pureVars, studentVars>>

\* the response interceptor on the failed request of a component
ComponentRejected(i) ==
    /\ apiRequests[i].from = "component"
    /\ \E status \in ErrorStatuses :
        /\ lastResponse' = [url |-> apiRequests[i].url, status |-> status,
                            access_token |-> {}, settled |-> "rejected"]
        /\ IF Unauthorized(status, apiRequests[i].url)
           THEN storedToken' = {} /\ navigating' = {"/login"}
           ELSE UNCHANGED <<storedToken, navigating>>
    /\ apiRequests' = Without(apiRequests, i)
    /\ sent' = <<>>
    /\ loginResult' = {}
    /\ authToast' = NoToast
    /\ UNCHANGED <<user, token, authLoading, defaultAuthorization,
                   tokenEffectDue, location, sessionVars, pureVars, studentVars>>

\* logout(), offered by the sidebar of the dashboard (AuthContext.tsx, 61-64)
Logout ==
    /\ user # {}
    /\ ClearAuth
    /\ authToast' = ToastSuccess("Logged out successfully")
    /\ sent' = <<>>
    /\ lastResponse' = NoResponse
    /\ loginResult' = {}
    /\ UNCHANGED <<authLoading, location, navigating, apiRequests, sessionVars,
                   pureVars, studentVars>>

\* the browser loads the path window.location.href was set to: the script
\* starts anew, what was in flight is dropped
PageLoad ==
    /\ navigating # {}
    /\ location' = CHOOSE path \in navigating : TRUE
    /\ navigating' = {}
    /\ token' = storedToken
    /\ user' = {}
    /\ authLoading' = TRUE
    /\ defaultAuthorization' = {}
    /\ tokenEffectDue' = TRUE
    /\ apiRequests' = <<>>
    /\ sent' = <<>>
    /\ lastResponse' = NoResponse
    /\ loginResult' = {}
    /\ authToast' = NoToast
    /\ UNCHANGED <<storedToken, sessionVars, pureVars, studentVars>>

AuthNext ==
    \/ RunTokenEffect
    \/ LoginSubmit
    \/ \E i \in DOMAIN apiRequests : LoginFulfilled(i)
    \/ \E i \in DOMAIN apiRequests : LoginRejected(i)
    \/ \E i \in DOMAIN apiRequests : ProfileFulfilled(i)
    \/ \E i \in DOMAIN apiRequests : ProfileRejected(i)
    \/ ComponentRequest
    \/ \E i \in DOMAIN apiRequests : ComponentFulfilled(i)
    \/ \E i \in DOMAIN apiRequests : ComponentRejected(i)
    \/ Logout
    \/ PageLoad

\* the page just loaded; the grading interface is in its first render
AuthSpecInit ==
    /\ AuthInit
    /\ SessionInit
    /\ StudentTestsInit
    /\ call = NoCall
    /\ ret = {}

SpecAuth == AuthSpecInit /\ [][AuthNext]_vars

\* ------------------------------------------------------------------------
\* StudentTests: taking a test                              (part_003)
\* ------------------------------------------------------------------------
\* the test the student can start
StudentTestIds == {"t1"}

\* the shortest test: a duration of one minute is 60 seconds, so the timer
\* ticks at least once before the tick that reaches 0
MinSeconds == 2

\* the request with index i has been answered
StudentRequestsWithout(i) ==
    [j \in 1..(Len(testRequests) - 1) |->
        IF j < i THEN testRequests[j] ELSE testRequests[j + 1]]

\* the modal is rendered: {showTestModal && selectedTest && ...}
\*                                                  (part_003, 324)
ModalShown == showTestModal /\ selectedTest # {}

\* the timer effect after the render that ends a step: when one of its
\* dependencies changed it clears the interval and, the condition holding,
\* sets a new one whose callback holds this render's submitTest
\*                                                  (part_003, 110-126)
TimerEffect ==
    intervalTest' =
        IF <<timeRemaining', showTestModal', testSubmitted'>>
               = <<timeRemaining, showTestModal, testSubmitted>>
        THEN intervalTest
        ELSE IF timeRemaining' > 0 /\ showTestModal' /\ ~testSubmitted'
             THEN selectedTest'
             ELSE {}

\* startTest(test) up to its await                 (part_003, 78-84)
\* the rendered modal covers the list of tests
StartTestClick ==
    /\ ~ModalShown
    /\ startClicks < MaxStarts
    /\ startClicks' = startClicks + 1
    /\ \E test \in StudentTestIds, seconds \in MinSeconds..MaxSeconds :
        /\ selectedTest' = {test}
        /\ testRequests' = Append(testRequests,
                                  [api |-> "getCourseQuestions",
                                   duration |-> seconds])
    /\ testLoading' = TRUE
    /\ tickedFrom' = {}
    /\ UNCHANGED <<showTestModal, testSubmitted, timeRemaining, started,
                   submitsSent, submitClicks, sessionVars, pureVars, authVars>>
    /\ TimerEffect

\* the questions arrived: the test starts          (part_003, 85-107)
StartTestFulfilled(i) ==
    /\ testRequests[i].api = "getCourseQuestions"
    /\ testSubmitted' = FALSE
    /\ timeRemaining' = testRequests[i].duration
    /\ showTestModal' = TRUE
    /\ testLoading' = FALSE
    /\ started' = (selectedTest # {})
    /\ submitsSent' = 0
    /\ testRequests' = StudentRequestsWithout(i)
    /\ tickedFrom' = {}
    /\ UNCHANGED <<selectedTest, startClicks, submitClicks, sessionVars,
                   pureVars, authVars>>
    /\ TimerEffect

\* the questions did not arrive                    (part_003, 101-107)
StartTestRejected(i) ==
    /\ testRequests[i].api = "getCourseQuestions"
    /\ testLoading' = FALSE
    /\ testRequests' = StudentRequestsWithout(i)
    /\ tickedFrom' = {}
    /\ UNCHANGED <<selectedTest, showTestModal, testSubmitted, timeRemaining,
                   started, submitsSent, startClicks, submitClicks,
                   sessionVars, pureVars, authVars>>
    /\ TimerEffect

\* submitTest() up to its await; test and submitted are the selectedTest and
\* the testSubmitted of the render the function belongs to
\*                                                  (part_003, 129-143)
submitTest(test, submitted) ==
    IF test = {} \/ submitted
    THEN UNCHANGED <<testLoading, testRequests, submitsSent>>
    ELSE /\ testLoading' = TRUE
         /\ testRequests' = Append(testRequests,
                                   [api |-> "submitTestAnswers",
                                    duration |-> 0])
         /\ submitsSent' = submitsSent + 1

\* an interval callback that stops at 0 and submits nothing
TimerTickWithoutSubmit ==
    /\ timeRemaining > 0 /\ showTestModal /\ ~testSubmitted
    /\ tickedFrom' = {timeRemaining}
    /\ timeRemaining' = timeRemaining - 1
    /\ UNCHANGED <<testLoading, testRequests, submitsSent, selectedTest,
                   showTestModal, testSubmitted, started, startClicks,
                   submitClicks, sessionVars, pureVars, authVars>>
    /\ TimerEffect

\* the interval's callback, one second after the effect set the interval
\*                                                  (part_003, 113-122)
TimerTick ==
    /\ timeRemaining > 0 /\ showTestModal /\ ~testSubmitted
    /\ tickedFrom' = {timeRemaining}
    /\ IF timeRemaining <= 1
       THEN /\ submitTest(intervalTest, FALSE)
            /\ timeRemaining' = 0
       ELSE /\ timeRemaining' = timeRemaining - 1
            /\ UNCHANGED <<testLoading, testRequests, submitsSent>>
    /\ UNCHANGED <<selectedTest, showTestModal, testSubmitted, started,
                   startClicks, submitClicks, sessionVars, pureVars, authVars>>
    /\ TimerEffect

\* the Submit Test button of the modal             (part_003, 361-369)
SubmitTestClick ==
    /\ ModalShown
    /\ ~testSubmitted
    /\ ~testLoading
    /\ submitClicks < MaxSubmitClicks
    /\ submitClicks' = submitClicks + 1
    /\ submitTest(selectedTest, testSubmitted)
    /\ tickedFrom' = {}
    /\ UNCHANGED <<selectedTest, showTestModal, testSubmitted, timeRemaining,
                   started, startClicks, sessionVars, pureVars, authVars>>
    /\ TimerEffect

\* submitTestAnswers succeeded: up to the await of getCourseTests
\*                                                  (part_003, 143-148)
SubmitTestFulfilled(i) ==
    /\ testRequests[i].api = "submitTestAnswers"
    /\ testSubmitted' = TRUE
    /\ testRequests' = Append(StudentRequestsWithout(i),
                              [api |-> "getCourseTests", duration |-> 0])
    /\ tickedFrom' = {}
    /\ UNCHANGED <<selectedTest, showTestModal, testLoading, timeRemaining,
                   started, submitsSent, startClicks, submitClicks,
                   sessionVars, pureVars, authVars>>
    /\ TimerEffect

\* submitTestAnswers failed                         (part_003, 154-159)
SubmitTestRejected(i) ==
    /\ testRequests[i].api = "submitTestAnswers"
    /\ testLoading' = FALSE
    /\ testRequests' = StudentRequestsWithout(i)
    /\ tickedFrom' = {}
    /\ UNCHANGED <<selectedTest, showTestModal, testSubmitted, timeRemaining,
                   started, submitsSent, startClicks, submitClicks,
                   sessionVars, pureVars, authVars>>
    /\ TimerEffect

\* the refresh of the tests was answered, either way (part_003, 148-159)
RefreshTestsSettled(i) ==
    /\ testRequests[i].api = "getCourseTests"
    /\ testLoading' = FALSE
    /\ testRequests' = StudentRequestsWithout(i)
    /\ tickedFrom' = {}
    /\ UNCHANGED <<selectedTest, showTestModal, testSubmitted, timeRemaining,
                   started, submitsSent, startClicks, submitClicks,
                   sessionVars, pureVars, authVars>>
    /\ TimerEffect

\* closeTestModal(), from the buttons of the modal  (part_003, 170-177)
CloseTestModal ==
    /\ ModalShown
    /\ showTestModal' = FALSE
    /\ selectedTest' = {}
    /\ testSubmitted' = FALSE
    /\ timeRemaining' = 0
    /\ started' = FALSE
    /\ tickedFrom' = {}
    /\ UNCHANGED <<testLoading, testRequests, submitsSent, startClicks,
                   submitClicks, sessionVars, pureVars, authVars>>
    /\ TimerEffect

StudentNext ==
    \/ StartTestClick
    \/ \E i \in DOMAIN testRequests : StartTestFulfilled(i)
    \/ \E i \in DOMAIN testRequests : StartTestRejected(i)
    \/ TimerTick
    \/ SubmitTestClick
    \/ \E i \in DOMAIN testRequests : SubmitTestFulfilled(i)
    \/ \E i \in DOMAIN testRequests : SubmitTestRejected(i)
    \/ \E i \in DOMAIN testRequests : RefreshTestsSettled(i)
    \/ CloseTestModal

\* the student is signed in, the page of the tests is shown
StudentInit ==
    /\ StudentTestsInit
    /\ SessionInit
    /\ AuthSignedIn
    /\ call = NoCall
    /\ ret = {}

SpecStudent == StudentInit /\ [][StudentNext]_vars

\* the browser runs the interval's callback when its second has passed
SpecStudentFair == SpecStudent /\ WF_vars(TimerTick)

\* ------------------------------------------------------------------------
\* Properties
\* ------------------------------------------------------------------------
\* g is the first label, in the order A,B,C,D,F, whose cutoff is <= score10
FirstMatch(g, score10, t) ==
    \E i \in DOMAIN GradeOrder :
        /\ GradeOrder[i] = g
        /\ t[g] * 10 <= score10
        /\ \A j \in 1..(i - 1) : t[GradeOrder[j]] * 10 > score10

\* C1 as stated: for every table with A >= B >= C >= D >= F and every score
\* in 0..100, classify returns one label of A,B,C,D,F, the first one in that
\* order whose cutoff is <= the score.
C1_EveryScoreGetsALabel ==
    (call.fn = "classify" /\ ret # {}) =>
        FirstMatch(Returned, call.score, call.thresholds)

\* C1 amended: for every table with A >= B >= C >= D >= F and every score in
\* 0..100 that reaches F's cutoff, classify returns one label of A,B,C,D,F,
\* the first one in that order whose cutoff is <= the score; a score equal to
\* a cutoff earns that grade (80 is a B under 90/80/70/60/0).
C1_FirstMatchAboveF ==
    (call.fn = "classify" /\ ret # {}) =>
        /\ call.thresholds.F * 10 <= call.score =>
               /\ Returned \in Grades
               /\ FirstMatch(Returned, call.score, call.thresholds)
        /\ (call.thresholds = DefaultThresholds /\ call.score = 800) =>
               Returned = "B"

\* a score that sits exactly on B's cutoff has been classified
C1_Witness ==
    /\ call.fn = "classify"
    /\ call.thresholds = DefaultThresholds
    /\ call.score = 800
    /\ ret = {"B"}

\* C2: overall_score is sum(points_earned) / sum(max_points) x 100 rounded to
\* one decimal, a half rounding away from zero, and overall_grade is the
\* classification of that score; points 8 and 10 over 10 and 10 give 90.0, A.
C2_WeightedPercentage ==
    (call.fn = "aggregateOverall" /\ ret # {}) =>
        LET earned == SumOver(call.questionResults, "points_earned")
            max    == SumOver(call.questionResults, "max_points")
            score  == Returned.overall_score
        IN  /\ max > 0 =>
                /\ 2 * max * score - max <= 2000 * earned
                /\ 2000 * earned < 2 * max * score + max
                /\ FirstMatch(Returned.overall_grade, score, call.thresholds)
            /\ call.questionResults = <<[points_earned |-> 8, max_points |-> 10],
                                        [points_earned |-> 10, max_points |-> 10]>>
                   => score = 900 /\ Returned.overall_grade = "A"

\* the two results of the example have been aggregated
C2_Witness ==
    /\ call.fn = "aggregateOverall"
    /\ call.questionResults = <<[points_earned |-> 8, max_points |-> 10],
                                [points_earned |-> 10, max_points |-> 10]>>
    /\ ret # {}
    /\ Returned.overall_score = 900
    /\ Returned.overall_grade = "A"

\* C3 as stated: the statistics of an empty collection are a value with
\* average, max and min 0 and an empty grade distribution, never null.
C3_EmptyGivesZeros ==
    (call.fn = "calculateStats" /\ call.results = <<>> /\ ret # {}) =>
        Returned = {[avgScore |-> Quotient(0, 1), maxScore |-> 0, minScore |-> 0,
                     gradeDistribution |-> <<>>]}

\* C3 amended: the statistics of an empty collection are null: no statistics
\* value and no grade distribution is produced, and the call does not fail.
C3_EmptyGivesNull ==
    (call.fn = "calculateStats" /\ call.results = <<>> /\ ret # {}) =>
        Returned = {}

\* calculateStats has returned for an empty collection
C3_Witness ==
    /\ call.fn = "calculateStats"
    /\ call.results = <<>>
    /\ ret # {}

\* the last step applied the response of a grading call of this kind
JustFulfilled(kind) ==
    /\ lastSettled.status = "fulfilled"
    /\ lastSettled.kind = kind

\* C4: at most one result set is active: the course-level results and the
\* test-level results are never both non-empty.
C4_OneActiveResultSet ==
    ~(gradingResults # <<>> /\ testGradingResults # <<>>)

\* test results were held, then a course response with results arrived
C4_Witness ==
    /\ JustFulfilled("course")
    /\ heldBefore = "test"
    /\ gradingResults # <<>>
    /\ testGradingResults = <<>>

\* C5: once the response of gradeTest is applied (after a gradeCourse that
\* succeeded, or after anything else), the held results are the test results of
\* that response and the course results are empty.
C5_CourseThenTest ==
    JustFulfilled("test") =>
        /\ gradingResults = <<>>
        /\ lastFulfilled # {}
        /\ testGradingResults = Nullish(Nullish(lastFulfilled, NoCall).data, <<>>)

\* course results were held, then a test response with results arrived
C5_Witness ==
    /\ JustFulfilled("test")
    /\ heldBefore = "course"
    /\ gradingResults = <<>>
    /\ testGradingResults # <<>>

C7_FailureKeepsResults ==
    [][lastSettled'.status = "rejected" =>
           /\ gradingResults' = gradingResults
           /\ testGradingResults' = testGradingResults
           /\ toast'.type = "error"]_vars

\* test results were held when a grading call failed, and they still are
C7_Witness ==
    /\ lastSettled.status = "rejected"
    /\ heldBefore = "test"
    /\ testGradingResults # <<>>
    /\ toast.type = "error"

\* C8 as stated: a failure of the grading API is raised to the caller of the
\* operation; the operation never completes normally after it.
C8_FailureIsRaised ==
    lastSettled.status = "rejected" => lastSettled.handler = "threw"

\* C8 amended: a failure of the grading API is caught by the handler and
\* shown as an error toast; the handler then completes normally and raises
\* no error to its caller.
C8_FailureIsCaught ==
    lastSettled.status = "rejected" =>
        /\ lastSettled.handler = "returned"
        /\ toast \in {ToastError("Failed to grade course answers"),
                      ToastError("Failed to grade test")}

\* a course grading call failed and its handler returned
C8_Witness ==
    /\ lastSettled.status = "rejected"
    /\ lastSettled.kind = "course"
    /\ lastSettled.handler = "returned"
    /\ toast = ToastError("Failed to grade course answers")

\* C9: updateThresholds, successful or failed, leaves the held results and
\* their grade labels as they were; the held results change only when a
\* grading response is applied.
C9_UpdateKeepsResults ==
    [][/\ thresholdUpdates' # thresholdUpdates =>
              UNCHANGED <<gradingResults, testGradingResults>>
       /\ <<gradingResults, testGradingResults>>' # <<gradingResults, testGradingResults>> =>
              lastSettled'.status = "fulfilled"]_vars

\* the thresholds were just updated while course results were held, and a
\* held result keeps a label the new table would not give it
C9_Witness ==
    /\ toast = ToastSuccess("Grade thresholds updated successfully")
    /\ gradeThresholds # {}
    /\ heldBefore = "course"
    /\ gradingResults # <<>>
    /\ gradingResults[1].grade #
           classify(gradingResults[1].score, Nullish(gradeThresholds, DefaultThresholds))

\* C10: the thresholds table held by the session always has
\* A >= B >= C >= D >= F >= 0.
C10_ThresholdsMonotone ==
    gradeThresholds # {} => Monotone(Nullish(gradeThresholds, DefaultThresholds))

\* every cutoff of t is an integer in 0..100
InRange(t) == \A g \in Grades : t[g] # NaN /\ 0 <= t[g] /\ t[g] <= 100

\* C11: a table in which some cutoff is not an integer in 0..100 is never
\* stored as the session's thresholds and never sent to the backend.
C11_OnlyCheckedTablesLeaveTheForm ==
    /\ gradeThresholds # {} => InRange(Nullish(gradeThresholds, DefaultThresholds))
    /\ \A u \in thresholdUpdates : InRange(u.form)

\* C12: when every cutoff is an integer in 0..100 and the order
\* A >= B >= C >= D >= F is violated, "Update Thresholds" shows no error and
\* sends the form as it is, and the table stored once the request succeeded
\* is the table of that request.
C12_OutOfOrderAcceptedAsIs ==
    [][/\ (updatesIssued' # updatesIssued /\ InRange(thresholdsForm)
              /\ ~Monotone(thresholdsForm)) =>
              /\ thresholdUpdates' =
                     thresholdUpdates \cup {[id |-> updatesIssued', form |-> thresholdsForm]}
              /\ toast'.type # "error"
       /\ toast' = ToastSuccess("Grade thresholds updated successfully") =>
              \E u \in thresholdUpdates \ thresholdUpdates' :
                  gradeThresholds' = {u.form}]_vars

\* a table with B above A was submitted and is now the stored table
C12_Witness ==
    /\ toast = ToastSuccess("Grade thresholds updated successfully")
    /\ gradeThresholds = {[DefaultThresholds EXCEPT !.B = 95]}
    /\ thresholdUpdates = {}

C14_NoMatchFails ==
    (call.fn = "classify" /\ ret # {}) =>
        /\ (\A g \in Grades : call.thresholds[g] * 10 > call.score) =>
               Returned = "InvalidThresholds"
        /\ Returned \in Grades => call.thresholds[Returned] * 10 <= call.score
        /\ Returned \in Grades \cup {"InvalidThresholds"}

\* a score of 50.0 was classified under a table whose F cutoff is 60
C14_Witness ==
    /\ call.fn = "classify"
    /\ call.thresholds.F = 60
    /\ call.score = 500
    /\ ret = {"InvalidThresholds"}

RECURSIVE SumOfCounts(_)
SumOfCounts(distribution) ==
    IF DOMAIN distribution = {} THEN 0
    ELSE LET g == CHOOSE x \in DOMAIN distribution : TRUE
         IN  distribution[g]
             + SumOfCounts([x \in DOMAIN distribution \ {g} |-> distribution[x]])

\* C16: for a non-empty collection calculateStats returns the average, the
\* largest and the smallest of the results' scores (overall_score for
\* test-level results), and a distribution that gives every label carried by
\* a result (grade, or overall_grade), and no other, the number of results
\* carrying it; the counts sum to the number of results.
C16_StatsOfReceivedValues ==
    (call.fn = "calculateStats" /\ ret # {} /\ call.results # <<>>) =>
        LET results == call.results
            n == Len(results)
            testLevel == \A i \in DOMAIN results : "overall_score" \in DOMAIN results[i]
            score(i) == IF testLevel THEN results[i].overall_score ELSE results[i].score
            label(i) == IF testLevel THEN results[i].overall_grade ELSE results[i].grade
            total == SumOver(results, IF testLevel THEN "overall_score" ELSE "score")
        IN  /\ Returned # {}
            /\ \A st \in Returned :
                   /\ st.avgScore.den > 0
                   /\ st.avgScore.num * n = total * st.avgScore.den
                   /\ \E i \in 1..n : st.maxScore = score(i)
                   /\ \A i \in 1..n : score(i) <= st.maxScore
                   /\ \E i \in 1..n : st.minScore = score(i)
                   /\ \A i \in 1..n : score(i) >= st.minScore
                   /\ DOMAIN st.gradeDistribution = {label(i) : i \in 1..n}
                   /\ \A g \in DOMAIN st.gradeDistribution :
                          st.gradeDistribution[g] =
                              Cardinality({i \in 1..n : label(i) = g})
                   /\ SumOfCounts(st.gradeDistribution) = n

\* the statistics of a D of 60.0 and an A of 85.0 have been computed: the A
\* is counted as received although 85.0 is a B under the default table
C16_Witness ==
    /\ call.fn = "calculateStats"
    /\ call.results = <<Result2, Result1>>
    /\ ret = {{[avgScore |-> [num |-> 725, den |-> 1], maxScore |-> 850,
                minScore |-> 600,
                gradeDistribution |-> ("A" :> 1) @@ ("D" :> 1)]}}

\* C17 as stated: before the fetch completes the thresholds the session shows
\* are the defaults 90/80/70/60/0; once it has completed they are, until the
\* user edits them, the defaults when it failed or returned no table and the
\* backend's table when it returned one.
C17_DefaultsUntilFetched ==
    /\ fetchState.status = "pending" => thresholdsForm = DefaultThresholds
    /\ (fetchState.status # "pending" /\ edits = 0) =>
           thresholdsForm = Nullish(fetchState.thresholds, DefaultThresholds)

\* C17 amended: the thresholds form is created with the defaults
\* 90/80/70/60/0 and the stored table as null.  As long as the user has not
\* edited the form, the form equals the defaults before the fetch completes
\* and after a fetch that failed or returned no table, and equals the
\* backend's table after a fetch that returned one; as long as no update was
\* issued, the stored table is null or the table that was fetched.
C17_DefaultsUntilFetchedOrEdited ==
    /\ edits = 0 =>
           thresholdsForm = Nullish(fetchState.thresholds, DefaultThresholds)
    /\ updatesIssued = 0 => gradeThresholds = fetchState.thresholds
    /\ fetchState.status # "fulfilled" => fetchState.thresholds = {}

\* the fetch returned the backend's table and the untouched form shows it
C17_Witness ==
    /\ fetchState = [status |-> "fulfilled", thresholds |-> {BackendThresholds}]
    /\ edits = 0
    /\ thresholdsForm = BackendThresholds
    /\ gradeThresholds = {BackendThresholds}

\* C18: a click on a Grade button issues exactly one grading request, and no
\* step but such a click issues one: when a request settles, fulfilled or
\* rejected, it leaves the requests in flight and none is added.
C18_OneRequestPerInvocation ==
    [][/\ (~loading /\ loading') => Len(inFlight') = Len(inFlight) + 1
       /\ Len(inFlight') > Len(inFlight) =>
              /\ Len(inFlight') = Len(inFlight) + 1
              /\ ~loading /\ loading'
              /\ lastSettled' = NoCall
       /\ lastSettled'.status \in {"fulfilled", "rejected"} =>
              Len(inFlight') = Len(inFlight) - 1]_vars

\* a grading request failed and nothing is in flight afterwards
C18_Witness ==
    /\ lastSettled.status = "rejected"
    /\ inFlight = <<>>
    /\ ~loading

C21_StudentSeesNoGrading ==
    (call.fn = "Dashboard" /\ ret # {}) =>
        /\ call.user = {} => Returned = {}
        /\ call.user # {} => Returned # {}
        /\ call.user = {"student"} =>
               \A page \in Returned :
                   /\ page.main \notin {"GradingInterface", "QuestionManagement"}
                   /\ call.path \in {"/grading", "/dashboard/grading", "/questions",
                                     "/dashboard/questions"} => page.main = "null"
                   /\ \A k \in DOMAIN page.navigation :
                          /\ page.navigation[k].name \notin
                                 {"Grading", "Questions", "All Questions"}
                          /\ page.navigation[k].href \notin
                                 {"/dashboard/grading", "/dashboard/questions"}

\* the dashboard was rendered for a student at the path of the grading
\* interface: the main area is empty and the student's navigation is shown
C21_Witness ==
    /\ call.fn = "Dashboard"
    /\ call.user = {"student"}
    /\ call.path = "/dashboard/grading"
    /\ ret = {{[navigation |-> studentNavigation, main |-> "null"]}}

\* C22: in every state the statistics panel shows the statistics of the
\* result set held in that state, and no panel when none is held; after a
\* grading response is applied it describes the results of that response.
C22_StatsOfHeldResults ==
    LET held == IF gradingResults # <<>> THEN gradingResults ELSE testGradingResults
    IN  /\ held = <<>> => statsPanel = {}
        /\ held # <<>> =>
               /\ calculateStats(held) # {}
               /\ \A stats \in calculateStats(held) :
                      statsPanel = {[avgScore |-> stats.avgScore,
                                     maxScore |-> stats.maxScore,
                                     minScore |-> stats.minScore,
                                     total    |-> Len(held)]}

\* course results with a highest score of 85.0 were shown, a test response
\* was applied, and the panel shows the highest overall score, 80.0
C22_Witness ==
    /\ JustFulfilled("test")
    /\ heldBefore = "course"
    /\ testGradingResults = <<TestResult1, TestResult2, TestResult3>>
    /\ \E panel \in statsPanel : panel.maxScore = 800 /\ panel.total = 3

\* C23: the step that handles a 401 response to a request other than
\* /auth/login removes the stored token and sets the browser off to /login
\* (window.location.href, the pending navigation); the step that handles a
\* 401 response to /auth/login leaves the stored token as it was and sets
\* the browser off to nowhere; every error response settles the caller's
\* promise as a rejection.
C23_ResponseErrorHandling ==
    [][LET response == lastResponse'
       IN  /\ (response.status = 401 /\ response.url # "/auth/login") =>
                  storedToken' = {} /\ navigating' = {"/login"}
           /\ (response.status = 401 /\ response.url = "/auth/login") =>
                  /\ storedToken' = storedToken
                  /\ navigating' = navigating
           /\ response.status \in ErrorStatuses => response.settled = "rejected"
      ]_vars

\* a component's request was answered 401 while a token was sent with it:
\* the token is gone and the browser is leaving for /login
C23_Witness ==
    /\ lastResponse.status = 401
    /\ lastResponse.url = "/grade-thresholds"
    /\ lastResponse.settled = "rejected"
    /\ storedToken = {}
    /\ navigating = {"/login"}
    /\ token # {}

\* the modal of a started test is open and the test is not submitted
OpenUnsubmitted == started /\ ModalShown /\ ~testSubmitted

\* C24: the seconds left are never below 0; a tick of the timer takes one
\* second off; the tick that reaches 0 in a started test sends the answers;
\* and, the timer ticking, a started test that is open and unsubmitted leads
\* to its answers being sent (or the test being marked submitted) unless its
\* modal is closed, whatever the student does.
C24_TimerSubmitsAtExpiry ==
    /\ [](/\ timeRemaining >= 0
          /\ \A before \in tickedFrom :
                /\ timeRemaining = before - 1
                /\ (before = 1 /\ started) =>
                      /\ submitsSent >= 1
                      /\ Len(testRequests) >= 1
                      /\ testRequests[Len(testRequests)].api = "submitTestAnswers")
    /\ (OpenUnsubmitted ~> (submitsSent >= 1 \/ testSubmitted \/ ~ModalShown))

\* the timer reached 0 without a click on Submit, the answers are on
\* their way
C24_Witness ==
    /\ tickedFrom = {1}
    /\ timeRemaining = 0
    /\ OpenUnsubmitted
    /\ submitClicks = 0
    /\ submitsSent = 1

\* C28: since a test was started, at most one submitTestAnswers request
\* has been sent for it.
C28_AtMostOneSubmitRequest == submitsSent <= 1

\* C25: a step takes the application to /dashboard only when login()
\* resolved in that step with success = true.
C25_DashboardOnlyAfterSuccess ==
    [][(location' = "/dashboard" /\ location # "/dashboard") =>
          \E result \in loginResult' : result.success]_vars

\* C26: when login() has resolved with success = true, the user is loaded
\* and the token is held in state and in localStorage.
C26_SuccessMeansAuthenticated ==
    \A result \in loginResult :
        result.success => user # {} /\ token # {} /\ storedToken # {}

\* C27: a user is held only while a token is held.
C27_UserImpliesToken == user # {} => token # {}

\* C29: loading is true exactly while a grading request is outstanding, at
\* most one is outstanding, a grading request is started only from a state
\* where loading is false, and the step in which a request completes,
\* fulfilled or rejected, leaves loading false.
C29_LoadingWhileOutstanding ==
    [][/\ loading' <=> Len(inFlight') > 0
       /\ Len(inFlight') <= 1
       /\ Len(inFlight') > Len(inFlight) => ~loading
       /\ lastSettled'.status \in {"fulfilled", "rejected"} => ~loading'
      ]_vars

\* a grading request failed and loading is false again, nothing outstanding
C29_Witness ==
    /\ lastSettled.status = "rejected"
    /\ ~loading
    /\ inFlight = <<>>

====
